---- MODULE Spec2Model ----
(***************************************************************************)
(* Model of the fetch-or-populate cache pipeline of tiktok-scraper:        *)
(* TikTokScraper.ScrapeVideo (scraper.go) and the S3-backed metadata and   *)
(* asset caches (s3.go).  Strings are sequences of one-character strings,  *)
(* so that key construction and the '/' check are computed, not assumed.   *)
(***************************************************************************)
EXTENDS Integers, Sequences, FiniteSets, TLC

(* ---------------- bounds ---------------- *)

\* number of ScrapeVideo calls (goroutines, one per inbound request)
NCalls == 2

Calls == 1..NCalls

\* number of faults of the origin and of the object store in one run
MaxFaults == 2

(* ---------------- strings ---------------- *)

Contains(s, ch) == \E i \in 1..Len(s) : s[i] = ch

\* TikTokScraperConfig.URL, the configured public base URL
URL == <<"B">>

TiktokPrefix == <<"t", "i", "k", "t", "o", "k", "/">>

ImgPrefix == <<"i", "m", "g", "/">>

JSONSuffix == <<".", "j", "s", "o", "n">>

\* the (username, videoID) pairs the front door hands to ScrapeVideo
Identities ==
    { << <<"a">>, <<"1">> >>, << <<"b">>, <<"1">> >>,
      << <<"a", "/", "b">>, <<"1">> >>, << <<"a">>, <<"b", "/", "1">> >> }

\* cacheKey := fmt.Sprintf("%s/%s", username, videoID)
CacheKey(u, v) == u \o <<"/">> \o v

\* "tiktok/" + key + ".json"
MetadataKey(key) == TiktokPrefix \o key \o JSONSuffix

\* mutant: the clip is stored under the key of the metadata document
ClipKey_JSON(key, format) == TiktokPrefix \o key \o <<".", "j", "s", "o", "n">>

\* "tiktok/" + cacheKey + "." + format
ClipKey(key, format) == TiktokPrefix \o key \o <<".">> \o format

\* hex digits of one character; the digest is modelled as the hex encoding
\* of the URL string, which like md5 is a function of the URL alone, yields
\* only hex digits, and has no collisions on the URLs of the model
HexOf(ch) ==
    CASE ch = "i" -> <<"6", "9">>
      [] ch = "d" -> <<"6", "4">>
      [] ch = "p" -> <<"7", "0">>
      [] ch = "1" -> <<"3", "1">>
      [] ch = "2" -> <<"3", "2">>
      [] ch = "3" -> <<"3", "3">>
      [] ch = "4" -> <<"3", "4">>
      [] ch = "5" -> <<"3", "5">>
      [] ch = "6" -> <<"3", "6">>
      [] OTHER -> <<"0", "0">>

RECURSIVE Md5Hex(_)
Md5Hex(url) ==
    IF url = <<>> THEN <<>> ELSE HexOf(Head(url)) \o Md5Hex(Tail(url))

\* "tiktok/img/" + hash
ImageKey(url) == TiktokPrefix \o ImgPrefix \o Md5Hex(url)

(* ---------------- records ---------------- *)

\* the zero value of TikTokMeta (the fields the pipeline reads or rewrites,
\* one free-text field and one counter)
ZeroMeta ==
    [ ID |-> <<>>, Description |-> <<>>,
      Video |-> [ Cover |-> <<>>, OriginCover |-> <<>>, DynamicCover |-> <<>>,
                  PlayAddr |-> <<>>, DownloadAddr |-> <<>>, Format |-> <<>> ],
      Author |-> [ UniqueID |-> <<>>, AvatarLarger |-> <<>>,
                   AvatarMedium |-> <<>>, AvatarThumb |-> <<>> ],
      Stats |-> [ DiggCount |-> 0 ],
      CDNVideoURL |-> <<>> ]

\* a *TikTokMeta: nil, or a pointer to a record
NilMeta == [ isNil |-> TRUE, meta |-> ZeroMeta ]

Ptr(m) == [ isNil |-> FALSE, meta |-> m ]

\* the record the origin holds for a video
BaseRecord(u, v) ==
    [ ID |-> v, Description |-> <<"d">>,
      Video |-> [ Cover |-> <<"i", "1">>, OriginCover |-> <<"i", "2">>,
                  DynamicCover |-> <<"i", "3">>,
                  PlayAddr |-> <<"p">>, DownloadAddr |-> <<"d">>,
                  Format |-> <<"m", "p", "4">> ],
      Author |-> [ UniqueID |-> u, AvatarLarger |-> <<"i", "4">>,
                   AvatarMedium |-> <<"i", "5">>, AvatarThumb |-> <<"i", "6">> ],
      Stats |-> [ DiggCount |-> 1 ],
      CDNVideoURL |-> <<>> ]

\* records the origin can answer with: the counters change over time, the
\* download address may be empty, and the document may carry a "cdnVideoURL"
\* member, which the decoder stores in CDNVideoURL like any tagged field
OriginRecords(u, v) ==
    { BaseRecord(u, v),
      [ BaseRecord(u, v) EXCEPT !.Video.DownloadAddr = <<>>,
                                !.Stats.DiggCount = 2 ],
      [ BaseRecord(u, v) EXCEPT !.CDNVideoURL = <<"x">> ] }

\* json.Marshal(ttm): the document, named by the struct's json tags
Marshal(m) ==
    [ id |-> m.ID, desc |-> m.Description,
      video |-> [ cover |-> m.Video.Cover, originCover |-> m.Video.OriginCover,
                  dynamicCover |-> m.Video.DynamicCover,
                  playAddr |-> m.Video.PlayAddr,
                  downloadAddr |-> m.Video.DownloadAddr,
                  format |-> m.Video.Format ],
      author |-> [ uniqueId |-> m.Author.UniqueID,
                   avatarLarger |-> m.Author.AvatarLarger,
                   avatarMedium |-> m.Author.AvatarMedium,
                   avatarThumb |-> m.Author.AvatarThumb ],
      stats |-> [ diggCount |-> m.Stats.DiggCount ],
      cdnVideoURL |-> m.CDNVideoURL ]

\* mutant: the cached clip URL is not read back
Unmarshal_NoCDN(d) ==
    [ ID |-> d.id, Description |-> d.desc,
      Video |-> [ Cover |-> d.video.cover, OriginCover |-> d.video.originCover,
                  DynamicCover |-> d.video.dynamicCover,
                  PlayAddr |-> d.video.playAddr,
                  DownloadAddr |-> d.video.downloadAddr,
                  Format |-> d.video.format ],
      Author |-> [ UniqueID |-> d.author.uniqueId,
                   AvatarLarger |-> d.author.avatarLarger,
                   AvatarMedium |-> d.author.avatarMedium,
                   AvatarThumb |-> d.author.avatarThumb ],
      Stats |-> [ DiggCount |-> d.stats.diggCount ],
      CDNVideoURL |-> <<>> ]

\* json.Unmarshal(bs, ttm) into a zero TikTokMeta
Unmarshal(d) ==
    [ ID |-> d.id, Description |-> d.desc,
      Video |-> [ Cover |-> d.video.cover, OriginCover |-> d.video.originCover,
                  DynamicCover |-> d.video.dynamicCover,
                  PlayAddr |-> d.video.playAddr,
                  DownloadAddr |-> d.video.downloadAddr,
                  Format |-> d.video.format ],
      Author |-> [ UniqueID |-> d.author.uniqueId,
                   AvatarLarger |-> d.author.avatarLarger,
                   AvatarMedium |-> d.author.avatarMedium,
                   AvatarThumb |-> d.author.avatarThumb ],
      Stats |-> [ DiggCount |-> d.stats.diggCount ],
      CDNVideoURL |-> d.cdnVideoURL ]

\* an object of the bucket: a JSON document or a byte body
JSONObject(m) ==
    [ isJSON |-> TRUE, doc |-> Marshal(m), body |-> "", ctype |-> "application/json" ]

BlobObject(b, ct) ==
    [ isJSON |-> FALSE, doc |-> Marshal(ZeroMeta), body |-> b, ctype |-> ct ]

(* ---------------- the environment: origin and object store ---------------- *)

\* answers to GET /node/share/video/<username>/<videoID>: a transport error,
\* or an envelope with a status code and an optional nested record
OriginResponses(u, v) ==
    { [ err |-> TRUE, StatusCode |-> 0, ItemStruct |-> NilMeta ] }
    \cup { [ err |-> FALSE, StatusCode |-> s, ItemStruct |-> NilMeta ] :
               s \in {0, 404, 10000} }
    \cup { [ err |-> FALSE, StatusCode |-> 0, ItemStruct |-> Ptr(r) ] :
               r \in OriginRecords(u, v) }

\* answers of httpClient.Do to a byte fetch: a transport error (the only
\* answer for an empty URL), or a response of any status with its body
FetchResponses(url) ==
    { [ err |-> TRUE, status |-> 0, body |-> "", ctype |-> "" ] }
    \cup IF url = <<>> THEN {}
         ELSE { [ err |-> FALSE, status |-> 200, body |-> "media", ctype |-> "media" ],
                [ err |-> FALSE, status |-> 403, body |-> "denied", ctype |-> "text/html" ] }

\* answers of s3.HeadObject for a key, given the bucket
HeadAnswers(bucket, key) ==
    (IF key \in DOMAIN bucket THEN {"ok"} ELSE {"NotFound"})
    \cup {"AWSOther", "NonAWS"}

\* answers of s3.GetObject and of reading its body; a key that is not in
\* the bucket answers with an error
GetAnswers(bucket, key) ==
    IF key \in DOMAIN bucket THEN {"ok", "GetErr", "ReadErr", "Garbled"}
    ELSE {"GetErr"}

\* the object a successful GetObject delivers
ObjectAt(bucket, key) ==
    IF key \in DOMAIN bucket THEN bucket[key]
    ELSE [ isJSON |-> FALSE, doc |-> Marshal(ZeroMeta), body |-> "", ctype |-> "" ]

\* outcomes of s3Uploader.Upload
UploadAnswers == {"ok", "fail"}

\* mutant: the object is stored also when the upload reports a failure
Upload_Always(bucket, key, obj, up) ==
    [ k \in DOMAIN bucket \cup {key} |-> IF k = key THEN obj ELSE bucket[k] ]

\* the bucket after an upload: a failed upload stores nothing
Upload(bucket, key, obj, up) ==
    IF up = "ok" THEN [ k \in DOMAIN bucket \cup {key} |->
                           IF k = key THEN obj ELSE bucket[k] ]
    ELSE bucket

(* ---------------- the row lock ---------------- *)

\* mutant: the row's locker is stored without looking for an existing one
LoadOrStore_Store(m, row, new) ==
    [ k \in DOMAIN m \cup {row} |-> IF k = row THEN new ELSE m[k] ]

\* sync.Map.LoadOrStore(row, newLocker): the locker already stored for the
\* row, or else the new one, atomically
LoadOrStore(m, row, new) ==
    IF row \in DOMAIN m THEN m ELSE [ k \in DOMAIN m \cup {row} |->
                                        IF k = row THEN new ELSE m[k] ]

(* ---------------- decisions of the code ---------------- *)

\* mutant: no identity is rejected
Rejected_Never(u, v) == FALSE

\* mutant: only the video id is checked
Rejected_VideoIDOnly(u, v) == Contains(v, "/")

\* strings.Contains(videoID, "/") || strings.Contains(username, "/")
Rejected(u, v) == Contains(v, "/") \/ Contains(u, "/")

\* mutant: an AWS error other than NotFound falls through to "return true"
cached_ErrAsCached(h) == h # "NonAWS" /\ h # "NotFound"

\* TikTokScraper.cached: only a HEAD without error counts as cached
cached(h) ==
    IF h = "ok" THEN TRUE
    ELSE IF h = "NonAWS" THEN FALSE
    ELSE IF h = "NotFound" THEN FALSE
    ELSE FALSE

\* mutant: a failed read is reported as "not cached" (nil, nil)
ReadCached_Swallow(g, obj) ==
    IF g # "ok" \/ ~obj.isJSON THEN [ meta |-> NilMeta, err |-> FALSE ]
    ELSE [ meta |-> Ptr(Unmarshal(obj.doc)), err |-> FALSE ]

\* TikTokScraper.cachedMetadata after cached() returned true: the decoded
\* record, or the error of GetObject, ReadAll or json.Unmarshal
ReadCached(g, obj) ==
    IF g \in {"GetErr", "ReadErr"} THEN [ meta |-> NilMeta, err |-> TRUE ]
    ELSE IF g = "Garbled" \/ ~obj.isJSON THEN [ meta |-> NilMeta, err |-> TRUE ]
    ELSE [ meta |-> Ptr(Unmarshal(obj.doc)), err |-> FALSE ]

\* mutant: the 404 check is missing
AfterMetadata_No404(r) ==
    IF r.err THEN "err"
    ELSE IF r.StatusCode # 0 THEN "err"
    ELSE "scrape"

\* ScrapeVideo after the metadata request: "err" (return nil, err),
\* "notfound" (return nil, nil) or "scrape" (go on with res.ItemInfo.ItemStruct)
AfterMetadata(r) ==
    IF r.err THEN "err"
    ELSE IF r.StatusCode = 404 THEN "notfound"
    ELSE IF r.StatusCode # 0 THEN "err"
    ELSE "scrape"

\* ScrapeVideoClip: addr := DownloadAddr, or PlayAddr if that is empty
ClipAddr(m) ==
    IF m.Video.DownloadAddr = <<>> THEN m.Video.PlayAddr ELSE m.Video.DownloadAddr

\* mutant: the error of the upload is dropped
StepFailed_FetchOnly(f, up) == f.err

\* whether a fetch followed by an upload returned an error (cacheImage,
\* ScrapeVideoClip): the response status is not looked at
StepFailed(f, up) == f.err \/ up # "ok"

\* the six image fields in the order processImages caches them
ImageField(m, k) ==
    CASE k = 1 -> m.Video.Cover
      [] k = 2 -> m.Video.OriginCover
      [] k = 3 -> m.Video.DynamicCover
      [] k = 4 -> m.Author.AvatarLarger
      [] k = 5 -> m.Author.AvatarMedium
      [] k = 6 -> m.Author.AvatarThumb

SetImageField(m, k, url) ==
    CASE k = 1 -> [ m EXCEPT !.Video.Cover = url ]
      [] k = 2 -> [ m EXCEPT !.Video.OriginCover = url ]
      [] k = 3 -> [ m EXCEPT !.Video.DynamicCover = url ]
      [] k = 4 -> [ m EXCEPT !.Author.AvatarLarger = url ]
      [] k = 5 -> [ m EXCEPT !.Author.AvatarMedium = url ]
      [] k = 6 -> [ m EXCEPT !.Author.AvatarThumb = url ]

NImages == 6

\* mutant: the record is returned along with the error
AfterPersist_KeepRecord(m, up) == [ meta |-> Ptr(m), err |-> up # "ok" ]

\* what ScrapeVideo returns when cacheMetadata returned: (nil, err) on an
\* error, the record otherwise
AfterPersist(m, up) ==
    IF up # "ok" THEN [ meta |-> NilMeta, err |-> TRUE ]
    ELSE [ meta |-> Ptr(m), err |-> FALSE ]

(* ---------------- short links ---------------- *)

MaxTokens == 7

\* the pieces the paths of the model are made of
PathTokens ==
    { <<"/">>, <<"@", "a", "l", "i", "c", "e">>, <<"v", "i", "d", "e", "o">>,
      <<"1", "2", "3">> }

RECURSIVE Flatten(_)
Flatten(ts) == IF ts = << >> THEN << >> ELSE Head(ts) \o Flatten(Tail(ts))

\* dest.Path of the final request: empty, or starting with "/"
Paths ==
    { Flatten(ts) :
        ts \in { t \in UNION { [1..n -> PathTokens] : n \in 0..MaxTokens } :
                    t = << >> \/ t[1] = <<"/">> } }

\* dest.Hostname() of the final request
Hosts == { "www.tiktok.com", "tiktok.com", "m.tiktok.com" }

\* answers of httpClient.Head to the short URL after following redirects: a
\* transport error, or the final response with its status and request URL
HeadResponses ==
    { [ err |-> TRUE, StatusCode |-> 0, Host |-> "", Path |-> << >> ] }
    \cup { [ err |-> FALSE, StatusCode |-> st, Host |-> h, Path |-> p ] :
               st \in {200, 404}, h \in Hosts, p \in Paths }

RECURSIVE TrimLeft(_, _)
TrimLeft(s, ch) ==
    IF s # << >> /\ Head(s) = ch THEN TrimLeft(Tail(s), ch) ELSE s

RECURSIVE TrimRight(_, _)
TrimRight(s, ch) ==
    IF s # << >> /\ s[Len(s)] = ch THEN TrimRight(SubSeq(s, 1, Len(s) - 1), ch)
    ELSE s

\* mutant: only the leading separators are cut
Trim_LeftOnly(s, ch) == TrimLeft(s, ch)

\* strings.Trim(s, cutset) for a cutset of one character
Trim(s, ch) == TrimRight(TrimLeft(s, ch), ch)

\* strings.Split(s, sep) for a separator of one character: the pieces
\* between the separators, a single piece when there is none
RECURSIVE Split(_, _)
Split(s, sep) ==
    IF \A i \in 1..Len(s) : s[i] # sep THEN << s >>
    ELSE LET i == CHOOSE k \in 1..Len(s) :
                      s[k] = sep /\ \A j \in 1..(k - 1) : s[j] # sep
         IN << SubSeq(s, 1, i - 1) >> \o Split(SubSeq(s, i + 1, Len(s)), sep)

\* what ResolveHash returns: username, videoID, and whether err is non-nil
Resolved(u, v, e) == [ username |-> u, videoID |-> v, err |-> e ]

\* TikTokScraper.ResolveHash on the answer r of the HEAD request
Resolve(r) ==
    IF r.err THEN Resolved(<< >>, << >>, TRUE)
    ELSE IF r.StatusCode = 404 THEN Resolved(<< >>, << >>, FALSE)
    ELSE IF r.Host # "www.tiktok.com" /\ r.Host # "tiktok.com"
    THEN Resolved(<< >>, << >>, TRUE)
    ELSE LET destParts == Split(Trim(r.Path, "/"), "/")
         IN IF Len(destParts) # 3 \/ destParts[2] # <<"v", "i", "d", "e", "o">>
            THEN Resolved(<< >>, << >>, TRUE)
            ELSE Resolved(destParts[1], destParts[3], FALSE)

\* the response of handleShortURL for what ResolveHash returned
ShortReply(res) ==
    IF res.err THEN [ code |-> 500, location |-> << >> ]
    ELSE IF Len(res.username) = 0 \/ Len(res.videoID) = 0
    THEN [ code |-> 404, location |-> << >> ]
    ELSE [ code |-> 301,
           location |-> <<"/", "v", "i", "d", "e", "o", "/">> \o res.username
                            \o <<"/">> \o res.videoID ]

\* no short-link request
NoRequest ==
    [ pc |-> "idle", resp |-> [ err |-> TRUE, StatusCode |-> 0, Host |-> "",
                                 Path |-> << >> ],
      res |-> Resolved(<< >>, << >>, FALSE),
      reply |-> [ code |-> 0, location |-> << >> ] ]

(* ---------------- state ---------------- *)

VARIABLES
    pc,         \* pc[c]: where call c stands in ScrapeVideo
    username,   \* username[c], videoID[c]: the arguments of call c
    videoID,
    rows,       \* tts.lock: the locker stored for each row (cache key)
    locker,     \* locker[c]: the locker call c got from the row lock
    holder,     \* holder[l]: the call that holds mutex l, 0 when free
    bucket,     \* the S3 bucket: object stored under each key
    ttm,        \* ttm[c]: res.ItemInfo.ItemStruct of call c
    imgIdx,     \* imgIdx[c]: the image field processImages is at
    result,     \* result[c]: what call c returns
    trace,      \* trace[c]: the origin and store requests of call c, in order
    persisted,  \* per metadata key, the record returned by the call that wrote it
    faults,     \* the faults of the origin and of the store so far
    short       \* the short-link request of handleShortURL and its progress

vars ==
    << pc, username, videoID, rows, locker, holder, bucket, ttm, imgIdx,
       result, trace, persisted, faults, short >>

NoResult == [ meta |-> NilMeta, err |-> FALSE, panic |-> FALSE ]

\* one request: the operation, its key or URL, the answer, the status code
Event(op, key, ans, status) ==
    [ op |-> op, key |-> key, ans |-> ans, status |-> status ]

Key(c) == CacheKey(username[c], videoID[c])

\* the scraper after NewScraper: no call, an empty row lock, and the bucket
\* as the run finds it
ScraperInit ==
    /\ pc = [ c \in Calls |-> "idle" ]
    /\ username = [ c \in Calls |-> <<>> ]
    /\ videoID = [ c \in Calls |-> <<>> ]
    /\ rows = << >>
    /\ locker = [ c \in Calls |-> 0 ]
    /\ holder = [ l \in Calls |-> 0 ]
    /\ bucket = << >>
    /\ ttm = [ c \in Calls |-> NilMeta ]
    /\ imgIdx = [ c \in Calls |-> 0 ]
    /\ result = [ c \in Calls |-> NoResult ]
    /\ trace = [ c \in Calls |-> << >> ]
    /\ persisted = << >>

Init == ScraperInit /\ faults = 0 /\ short = NoRequest

\* an answer of the environment that is a fault is taken only while the
\* run has faults left
Faulty(isFault) ==
    /\ isFault => faults < MaxFaults
    /\ faults' = faults + (IF isFault THEN 1 ELSE 0)

(* ---------------- ScrapeVideo ---------------- *)

\* scraper.go 175-186: the '/' check, the cache key, and the row lock's
\* getLocker for that key
ScrapeVideo(c, u, v) ==
    /\ pc[c] = "idle"
    /\ UNCHANGED short
    /\ username' = [ username EXCEPT ![c] = u ]
    /\ videoID' = [ videoID EXCEPT ![c] = v ]
    /\ IF Rejected(u, v)
       THEN /\ pc' = [ pc EXCEPT ![c] = "done" ]
            /\ UNCHANGED << rows, locker >>
       ELSE /\ rows' = LoadOrStore(rows, CacheKey(u, v), c)
            /\ locker' = [ locker EXCEPT ![c] = rows'[CacheKey(u, v)] ]
            /\ pc' = [ pc EXCEPT ![c] = "Lock" ]
    /\ UNCHANGED << holder, bucket, ttm, imgIdx, result, trace, persisted, faults >>

\* mutant: Lock returns without waiting for the holder to release
Lock_NoWait(c) ==
    /\ pc[c] = "Lock"
    /\ UNCHANGED short
    /\ holder' = [ holder EXCEPT ![locker[c]] = c ]
    /\ pc' = [ pc EXCEPT ![c] = "cached" ]
    /\ UNCHANGED << username, videoID, rows, locker, bucket, ttm, imgIdx,
                    result, trace, persisted, faults >>

\* scraper.go 186: tts.lock.Lock(cacheKey) blocks until the mutex is free
Lock(c) ==
    /\ pc[c] = "Lock"
    /\ UNCHANGED short
    /\ holder[locker[c]] = 0
    /\ holder' = [ holder EXCEPT ![locker[c]] = c ]
    /\ pc' = [ pc EXCEPT ![c] = "cached" ]
    /\ UNCHANGED << username, videoID, rows, locker, bucket, ttm, imgIdx,
                    result, trace, persisted, faults >>

\* s3.go 70-74 and scraper.go 189-196: the existence check
CachedMetadataHead(c) ==
    /\ pc[c] = "cached"
    /\ UNCHANGED short
    /\ \E h \in HeadAnswers(bucket, MetadataKey(Key(c))) :
          /\ Faulty(h \in {"AWSOther", "NonAWS"})
          /\ trace' = [ trace EXCEPT ![c] =
                          Append(@, Event("head", MetadataKey(Key(c)), h, 0)) ]
          /\ pc' = [ pc EXCEPT ![c] = IF cached(h) THEN "GetObject" ELSE "Get" ]
    /\ UNCHANGED << username, videoID, rows, locker, holder, bucket, ttm,
                    imgIdx, result, persisted >>

\* s3.go 76-95 and scraper.go 189-196: read and decode the cached record
CachedMetadataGet(c) ==
    /\ pc[c] = "GetObject"
    /\ UNCHANGED short
    /\ \E g \in GetAnswers(bucket, MetadataKey(Key(c))) :
          LET r == ReadCached(g, ObjectAt(bucket, MetadataKey(Key(c)))) IN
          /\ Faulty(g # "ok")
          /\ trace' = [ trace EXCEPT ![c] =
                          Append(@, Event("get", MetadataKey(Key(c)), g, 0)) ]
          /\ IF r.err
             THEN /\ result' = [ result EXCEPT ![c] =
                                   [ meta |-> NilMeta, err |-> TRUE, panic |-> FALSE ] ]
                  /\ pc' = [ pc EXCEPT ![c] = "Unlock" ]
             ELSE IF ~r.meta.isNil
             THEN /\ result' = [ result EXCEPT ![c] =
                                   [ meta |-> r.meta, err |-> FALSE, panic |-> FALSE ] ]
                  /\ pc' = [ pc EXCEPT ![c] = "Unlock" ]
             ELSE /\ result' = result
                  /\ pc' = [ pc EXCEPT ![c] = "Get" ]
    /\ UNCHANGED << username, videoID, rows, locker, holder, bucket, ttm,
                    imgIdx, persisted >>

\* scraper.go 198-225: the metadata request to the origin
FetchMetadata(c) ==
    /\ pc[c] = "Get"
    /\ UNCHANGED short
    /\ \E r \in OriginResponses(username[c], videoID[c]) :
          /\ Faulty(r.err)
          /\ trace' = [ trace EXCEPT ![c] =
                          Append(@, Event("meta", Key(c),
                                          IF r.err THEN "err" ELSE "answered",
                                          r.StatusCode)) ]
          /\ CASE AfterMetadata(r) = "err" ->
                    /\ result' = [ result EXCEPT ![c] =
                                     [ meta |-> NilMeta, err |-> TRUE, panic |-> FALSE ] ]
                    /\ pc' = [ pc EXCEPT ![c] = "Unlock" ]
                    /\ ttm' = ttm
               [] AfterMetadata(r) = "notfound" ->
                    /\ result' = [ result EXCEPT ![c] =
                                     [ meta |-> NilMeta, err |-> FALSE, panic |-> FALSE ] ]
                    /\ pc' = [ pc EXCEPT ![c] = "Unlock" ]
                    /\ ttm' = ttm
               [] OTHER ->
                    /\ ttm' = [ ttm EXCEPT ![c] = r.ItemStruct ]
                    /\ pc' = [ pc EXCEPT ![c] = "ScrapeVideoClip" ]
                    /\ result' = result
    /\ UNCHANGED << username, videoID, rows, locker, holder, bucket, imgIdx,
                    persisted >>

\* the requests of a fetch followed, when the fetch answered, by an upload
FetchAndPut(url, key, f, up) ==
    IF f.err THEN << Event("bytes", url, "err", 0) >>
    ELSE << Event("bytes", url, "answered", f.status), Event("put", key, up, 0) >>

ErrResult == [ meta |-> NilMeta, err |-> TRUE, panic |-> FALSE ]

\* scraper.go 227-230, 245-284: ScrapeVideoClip; a nil record faults at the
\* first field access, and the deferred Unlock still runs
ScrapeVideoClip(c) ==
    /\ pc[c] = "ScrapeVideoClip"
    /\ UNCHANGED short
    /\ IF ttm[c].isNil
       THEN /\ result' = [ result EXCEPT ![c] =
                             [ meta |-> NilMeta, err |-> FALSE, panic |-> TRUE ] ]
            /\ pc' = [ pc EXCEPT ![c] = "Unlock" ]
            /\ UNCHANGED << bucket, ttm, imgIdx, trace, faults >>
       ELSE IF ttm[c].meta.CDNVideoURL # <<>>
       THEN /\ pc' = [ pc EXCEPT ![c] = "processImages" ]
            /\ imgIdx' = [ imgIdx EXCEPT ![c] = 1 ]
            /\ UNCHANGED << bucket, ttm, result, trace, faults >>
       ELSE LET m == ttm[c].meta
                addr == ClipAddr(m)
                key == ClipKey(Key(c), m.Video.Format)
            IN \E f \in FetchResponses(addr), up \in UploadAnswers :
                 /\ f.err => up = "ok"
                 /\ Faulty(f.err \/ f.status # 200 \/ up # "ok")
                 /\ trace' = [ trace EXCEPT ![c] = @ \o FetchAndPut(addr, key, f, up) ]
                 /\ bucket' = IF f.err THEN bucket
                              ELSE Upload(bucket, key, BlobObject(f.body, f.ctype), up)
                 /\ IF StepFailed(f, up)
                    THEN /\ result' = [ result EXCEPT ![c] = ErrResult ]
                         /\ pc' = [ pc EXCEPT ![c] = "Unlock" ]
                         /\ UNCHANGED << ttm, imgIdx >>
                    ELSE /\ ttm' = [ ttm EXCEPT ![c].meta.CDNVideoURL =
                                       URL \o <<"/">> \o key ]
                         /\ pc' = [ pc EXCEPT ![c] = "processImages" ]
                         /\ imgIdx' = [ imgIdx EXCEPT ![c] = 1 ]
                         /\ result' = result
    /\ UNCHANGED << username, videoID, rows, locker, holder, persisted >>

\* scraper.go 232-235, s3.go 128-196: one cacheImage call of processImages
CacheImage(c) ==
    /\ pc[c] = "processImages"
    /\ UNCHANGED short
    /\ LET k == imgIdx[c]
           url == ImageField(ttm[c].meta, k)
           key == ImageKey(url)
       IN \E f \in FetchResponses(url), up \in UploadAnswers :
            /\ f.err => up = "ok"
            /\ Faulty(f.err \/ f.status # 200 \/ up # "ok")
            /\ trace' = [ trace EXCEPT ![c] = @ \o FetchAndPut(url, key, f, up) ]
            /\ bucket' = IF f.err THEN bucket
                         ELSE Upload(bucket, key, BlobObject(f.body, f.ctype), up)
            /\ IF StepFailed(f, up)
               THEN /\ result' = [ result EXCEPT ![c] = ErrResult ]
                    /\ pc' = [ pc EXCEPT ![c] = "Unlock" ]
                    /\ UNCHANGED << ttm, imgIdx >>
               ELSE /\ ttm' = [ ttm EXCEPT ![c].meta =
                                  SetImageField(@, k, URL \o <<"/">> \o key) ]
                    /\ IF k = NImages
                       THEN /\ pc' = [ pc EXCEPT ![c] = "cacheMetadata" ]
                            /\ imgIdx' = imgIdx
                       ELSE /\ pc' = pc
                            /\ imgIdx' = [ imgIdx EXCEPT ![c] = k + 1 ]
                    /\ result' = result
    /\ UNCHANGED << username, videoID, rows, locker, holder, persisted >>

\* scraper.go 237-242, s3.go 98-116: persist the record and return
CacheMetadata(c) ==
    /\ pc[c] = "cacheMetadata"
    /\ UNCHANGED short
    /\ LET key == MetadataKey(Key(c))
           m == ttm[c].meta
       IN \E up \in UploadAnswers :
            /\ Faulty(up # "ok")
            /\ trace' = [ trace EXCEPT ![c] = Append(@, Event("put", key, up, 0)) ]
            /\ bucket' = Upload(bucket, key, JSONObject(m), up)
            /\ persisted' = IF up = "ok" THEN Upload(persisted, key, m, up)
                            ELSE persisted
            /\ result' = [ result EXCEPT ![c] =
                             [ meta |-> AfterPersist(m, up).meta,
                               err |-> AfterPersist(m, up).err, panic |-> FALSE ] ]
            /\ pc' = [ pc EXCEPT ![c] = "Unlock" ]
    /\ UNCHANGED << username, videoID, rows, locker, holder, ttm, imgIdx >>

\* mutant: the mutex is never released
Released_Never(h, l, r) == h

\* mutant: the unlock is not deferred, error returns skip it
Released_NotOnError(h, l, r) == IF r.err THEN h ELSE [ h EXCEPT ![l] = 0 ]

\* the mutex after the deferred tts.lock.Unlock(cacheKey): the row's locker
\* is released whatever the call returns
Released(h, l, r) == [ h EXCEPT ![l] = 0 ]

\* scraper.go 187: defer tts.lock.Unlock(cacheKey), then the call returns
Unlock(c) ==
    /\ pc[c] = "Unlock"
    /\ UNCHANGED short
    /\ holder' = Released(holder, rows[Key(c)], result[c])
    /\ pc' = [ pc EXCEPT ![c] = "done" ]
    /\ UNCHANGED << username, videoID, rows, locker, bucket, ttm, imgIdx,
                    result, trace, persisted, faults >>

Next ==
    \/ \E c \in Calls, id \in Identities : ScrapeVideo(c, id[1], id[2])
    \/ \E c \in Calls : Lock(c)
    \/ \E c \in Calls : CachedMetadataHead(c)
    \/ \E c \in Calls : CachedMetadataGet(c)
    \/ \E c \in Calls : FetchMetadata(c)
    \/ \E c \in Calls : ScrapeVideoClip(c)
    \/ \E c \in Calls : CacheImage(c)
    \/ \E c \in Calls : CacheMetadata(c)
    \/ \E c \in Calls : Unlock(c)

Spec == Init /\ [][Next]_vars

(* ---------------- the short-link handler ---------------- *)

scraperVars ==
    << pc, username, videoID, rows, locker, holder, bucket, ttm, imgIdx,
       result, trace, persisted, faults >>

\* one short-link request, with the answer its HEAD request will get
ShortInit ==
    /\ ScraperInit /\ faults = 0
    /\ short \in { [ NoRequest EXCEPT !.pc = "ResolveHash", !.resp = r ] :
                      r \in HeadResponses }

\* main.go 49, scraper.go 147-173: ResolveHash on the answer
ResolveHash ==
    /\ short.pc = "ResolveHash"
    /\ short' = [ short EXCEPT !.pc = "reply", !.res = Resolve(short.resp) ]
    /\ UNCHANGED scraperVars

\* main.go 50-62: the response of handleShortURL
HandleShortURL ==
    /\ short.pc = "reply"
    /\ short' = [ short EXCEPT !.pc = "done", !.reply = ShortReply(short.res) ]
    /\ UNCHANGED scraperVars

ShortNext == ResolveHash \/ HandleShortURL

ShortSpec == ShortInit /\ [][ShortNext]_vars

TypeOK ==
    /\ \A c \in Calls : pc[c] \in { "idle", "Lock", "cached", "GetObject", "Get",
                                     "ScrapeVideoClip", "processImages",
                                     "cacheMetadata", "Unlock", "done" }
    /\ \A c \in Calls : imgIdx[c] \in 0..NImages

(* ---------------- vocabulary of the properties ---------------- *)

\* call c is between acquiring the lock for its key and releasing it
HoldsLock(c) ==
    pc[c] \in { "cached", "GetObject", "Get", "ScrapeVideoClip", "processImages",
                "cacheMetadata", "Unlock" }

\* call c executes the MISS path: origin metadata fetch, clip caching, image
\* caching, metadata persist
InMiss(c) ==
    pc[c] \in { "Get", "ScrapeVideoClip", "processImages", "cacheMetadata" }

\* call c has left the pipeline (it returns once the deferred unlock ran)
Finished(c) == pc[c] \in { "Unlock", "done" }

HasSlash(s) == \E i \in 1..Len(s) : s[i] = "/"

ReturnsNotFound(c) == result[c].meta.isNil /\ ~result[c].err /\ ~result[c].panic

ReturnsError(c) == result[c].meta.isNil /\ result[c].err /\ ~result[c].panic

ReturnsRecord(c) == ~result[c].meta.isNil /\ ~result[c].err /\ ~result[c].panic

Puts(c) == { i \in 1..Len(trace[c]) : trace[c][i].op = "put" }

OriginRequests(c) == { i \in 1..Len(trace[c]) : trace[c][i].op \in {"meta", "bytes"} }

MetaFetches(c) == { i \in 1..Len(trace[c]) : trace[c][i].op = "meta" }

\* the key of call c's metadata object, spelled out
JSONKeyOf(c) ==
    <<"t", "i", "k", "t", "o", "k", "/">> \o username[c] \o <<"/">> \o videoID[c]
        \o <<".", "j", "s", "o", "n">>

\* the i-th request of call c is an asset step (clip or image) that failed:
\* the byte fetch returned an error, or the upload of the asset did
AssetStepFailed(c, i) ==
    \/ trace[c][i].op = "bytes" /\ trace[c][i].ans = "err"
    \/ trace[c][i].op = "put" /\ trace[c][i].ans = "fail"
          /\ trace[c][i].key # JSONKeyOf(c)

(* ---------------- C1 ---------------- *)

\* C1: for a fixed identity at most one call is between acquiring the lock
\* for owner/videoId and releasing it, so at most one MISS path execution for
\* that identity is in flight, also when the key is first touched by
\* several callers at once.
C1_MutualExclusion ==
    \A c1, c2 \in Calls :
        (c1 # c2 /\ HoldsLock(c1) /\ HoldsLock(c2)) =>
            << username[c1], videoID[c1] >> # << username[c2], videoID[c2] >>

\* two callers touched a previously unseen key, one runs the MISS path while
\* the other is blocked on the lock
C1_Witness ==
    \E c1, c2 \in Calls :
        /\ c1 # c2
        /\ username[c1] = username[c2] /\ videoID[c1] = videoID[c2]
        /\ pc[c1] = "processImages"
        /\ pc[c2] = "Lock"

(* ---------------- C3 ---------------- *)

\* C3: on every exit path taken after the lock was acquired the lock is
\* released: a call that has returned holds no mutex.
C3_ReleasedOnReturn ==
    \A c \in Calls : pc[c] = "done" => \A l \in Calls : holder[l] # c

\* calls have returned on an error path and on the not-found path after
\* having acquired the lock
C3_Witness ==
    \E c1, c2 \in Calls :
        /\ pc[c1] = "done" /\ ReturnsError(c1) /\ Len(trace[c1]) > 2
        /\ pc[c2] = "done" /\ ReturnsNotFound(c2) /\ Len(trace[c2]) = 2

(* ---------------- C4 ---------------- *)

\* C4: an identity whose owner or videoId contains '/' gets the not-found
\* outcome, and the call acquires no lock, creates no lock-table row and
\* sends no origin request and no object-store call.
C4_SlashRejected ==
    \A c \in Calls :
        (pc[c] # "idle" /\ (HasSlash(username[c]) \/ HasSlash(videoID[c]))) =>
            /\ pc[c] = "done"
            /\ ReturnsNotFound(c)
            /\ trace[c] = << >>
            /\ locker[c] = 0
            /\ \A l \in Calls : holder[l] # c
            /\ username[c] \o <<"/">> \o videoID[c] \notin DOMAIN rows

\* both kinds of invalid identity have been rejected
C4_Witness ==
    \E c1, c2 \in Calls :
        /\ pc[c1] = "done" /\ HasSlash(username[c1]) /\ ~HasSlash(videoID[c1])
        /\ pc[c2] = "done" /\ HasSlash(videoID[c2]) /\ ~HasSlash(username[c2])

(* ---------------- C5 ---------------- *)

\* C5: all-or-nothing: when the clip step or the k-th image step fails,
\* nothing is attempted after it (no further image, no metadata write) and
\* the call returns a system error.
C5_AllOrNothing ==
    \A c \in Calls : \A i \in 1..Len(trace[c]) :
        AssetStepFailed(c, i) =>
            /\ i = Len(trace[c])
            /\ Finished(c)
            /\ ReturnsError(c)
            /\ \A j \in Puts(c) : trace[c][j].key # JSONKeyOf(c)

\* the upload of the 4th image failed after the clip and three images were
\* stored, and the fetch of the clip failed in another call
C5_Witness ==
    \E c1, c2 \in Calls :
        /\ pc[c1] = "done" /\ Len(trace[c1]) = 12
        /\ trace[c1][12].op = "put" /\ trace[c1][12].ans = "fail"
        /\ trace[c1][11].key = <<"i", "4">>
        /\ pc[c2] = "done" /\ Len(trace[c2]) = 3
        /\ trace[c2][3].op = "bytes" /\ trace[c2][3].ans = "err"

(* ---------------- C2 ---------------- *)

SameIdentity(c1, c2) == username[c1] = username[c2] /\ videoID[c1] = videoID[c2]

\* C2 as stated: calls with identical (owner, videoId) result in at most one
\* origin metadata fetch, every caller but the first takes the hit path.
C2_Original ==
    \A c1, c2 \in Calls :
        (c1 # c2 /\ pc[c1] # "idle" /\ pc[c2] # "idle" /\ SameIdentity(c1, c2)) =>
            ~(MetaFetches(c1) # {} /\ MetaFetches(c2) # {})

\* C2 amended: for one identity at most one call is in the MISS path at a
\* time; a call sends the origin metadata request only when no record is
\* stored for its identity at that moment or its existence check failed,
\* and a call whose existence check found the record sends none; so callers
\* queued behind a call that persisted the record take the hit path, while
\* callers queued behind a call that ended not-found or in error fetch again.
C2_FetchOnlyWhenNotCached ==
    [][ \A c \in Calls :
          /\ \A c2 \in Calls :
                (c2 # c /\ SameIdentity(c, c2)) => ~(InMiss(c) /\ InMiss(c2))
          /\ (pc[c] = "Get" /\ pc'[c] # "Get") =>
                (JSONKeyOf(c) \in DOMAIN bucket =>
                    trace[c][1].ans \in {"AWSOther", "NonAWS"})
          /\ (trace'[c] # << >> /\ trace'[c][1].ans = "ok") =>
                \A i \in 1..Len(trace'[c]) : trace'[c][i].op # "meta" ]_vars

\* the first caller fetched and persisted, the second caller, queued behind
\* it, found the record and is leaving by the hit path without a fetch
C2_Witness ==
    \E c1, c2 \in Calls :
        /\ c1 # c2 /\ SameIdentity(c1, c2)
        /\ pc[c1] = "done" /\ MetaFetches(c1) # {} /\ ReturnsRecord(c1)
        /\ pc[c2] = "Unlock" /\ MetaFetches(c2) = {} /\ ReturnsRecord(c2)

(* ---------------- C6 ---------------- *)

\* the last request of call c is its metadata write, and it failed
PersistFailed(c) ==
    /\ trace[c] # << >>
    /\ trace[c][Len(trace[c])].op = "put"
    /\ trace[c][Len(trace[c])].key = JSONKeyOf(c)
    /\ trace[c][Len(trace[c])].ans = "fail"

PersistedBy(c) ==
    \E j \in Puts(c) : trace[c][j].key = JSONKeyOf(c) /\ trace[c][j].ans = "ok"

\* C6 as stated: when the metadata write fails the call is a system error
\* and the record is still returned to the current caller.
C6_Original ==
    \A c \in Calls :
        PersistFailed(c) => (result[c].err /\ ~result[c].meta.isNil)

\* C6 amended: when the metadata write fails the call returns a system
\* error and no record; the failed write stores nothing, so a metadata
\* object exists for the identity only if another call wrote it, and while
\* none exists no caller's existence check reports a hit.
C6_PersistFailure ==
    \A c \in Calls :
        PersistFailed(c) =>
            /\ Finished(c)
            /\ ReturnsError(c)
            /\ JSONKeyOf(c) \in DOMAIN bucket =>
                  \E c2 \in Calls : c2 # c /\ SameIdentity(c, c2) /\ PersistedBy(c2)
            /\ JSONKeyOf(c) \notin DOMAIN bucket =>
                  \A c2 \in Calls :
                      (SameIdentity(c, c2) /\ trace[c2] # << >>) =>
                          trace[c2][1].ans # "ok"

\* the metadata write of one call failed and a later caller for the same
\* identity has redone the pipeline up to the metadata write
C6_Witness ==
    \E c1, c2 \in Calls :
        /\ c1 # c2 /\ SameIdentity(c1, c2)
        /\ pc[c1] = "done" /\ PersistFailed(c1)
        /\ pc[c2] = "cacheMetadata" /\ trace[c2][1].ans = "NotFound"

(* ---------------- C7 ---------------- *)

C8_OriginRefusal ==
    \A c \in Calls : \A i \in MetaFetches(c) :
        /\ (trace[c][i].ans = "answered" /\ trace[c][i].status = 404) =>
              (Finished(c) /\ ReturnsNotFound(c) /\ Puts(c) = {} /\ i = Len(trace[c]))
        /\ (trace[c][i].ans = "err" \/ trace[c][i].status \notin {0, 404}) =>
              (Finished(c) /\ ReturnsError(c) /\ Puts(c) = {} /\ i = Len(trace[c]))

\* one call got a 404 envelope and another an error status
C8_Witness ==
    \E c1, c2 \in Calls :
        /\ pc[c1] = "done" /\ Len(trace[c1]) = 2 /\ trace[c1][2].status = 404
        /\ pc[c2] = "done" /\ Len(trace[c2]) = 2 /\ trace[c2][2].status = 10000

(* ---------------- C9 ---------------- *)

\* C9: fail-open existence check: when the HEAD of the metadata key fails
\* with any error, the call goes on to the origin metadata request, whether
\* or not a record is stored under the key.
C9_FailOpen ==
    \A c \in Calls :
        (trace[c] # << >> /\ trace[c][1].ans # "ok") =>
            IF Len(trace[c]) = 1 THEN pc[c] = "Get" ELSE trace[c][2].op = "meta"

\* the existence check failed although the record is stored, and the call
\* has fetched the metadata from the origin again
C9_Witness ==
    \E c \in Calls :
        /\ pc[c] = "ScrapeVideoClip"
        /\ trace[c][1].ans = "AWSOther"
        /\ trace[c][2].op = "meta"
        /\ JSONKeyOf(c) \in DOMAIN bucket

(* ---------------- C10 ---------------- *)

\* C10: when the existence check reports the record as cached but reading
\* or decoding it fails, the call returns an error and sends nothing more:
\* no origin request, no put.
C10_ReadErrorIsHard ==
    \A c \in Calls :
        (Len(trace[c]) >= 2 /\ trace[c][2].op = "get" /\ trace[c][2].ans # "ok") =>
            (Len(trace[c]) = 2 /\ Finished(c) /\ ReturnsError(c))

\* a stored record could not be decoded and the call returned the error
C10_Witness ==
    \E c \in Calls :
        /\ pc[c] = "done" /\ Len(trace[c]) = 2
        /\ trace[c][1].ans = "ok" /\ trace[c][2].ans = "Garbled"
        /\ ReturnsError(c)

(* ---------------- C11 ---------------- *)

\* the i-th request of call c is a byte fetch (clip or image) the origin
\* answered with a non-success status
NonSuccessFetch(c, i) ==
    /\ trace[c][i].op = "bytes"
    /\ trace[c][i].ans = "answered"
    /\ trace[c][i].status # 200

\* C11: a non-success HTTP status on the clip fetch or on any of the six
\* image fetches aborts the pipeline: the call returns a system error, the
\* body of that answer is not stored (no put follows the fetch), and the
\* call persists no metadata.
C11_NonSuccessAborts ==
    \A c \in Calls : \A i \in 1..Len(trace[c]) :
        NonSuccessFetch(c, i) =>
            /\ Finished(c) /\ ReturnsError(c)
            /\ \A j \in Puts(c) : j < i
            /\ ~PersistedBy(c)

(* ---------------- C12 ---------------- *)

\* in this step call c makes a successful put under key k
WritesKey(c, k) ==
    /\ trace'[c] # trace[c]
    /\ trace'[c][Len(trace'[c])].op = "put"
    /\ trace'[c][Len(trace'[c])].ans = "ok"
    /\ trace'[c][Len(trace'[c])].key = k

\* the existence check of call c was answered with an error
HeadFailed(c) ==
    /\ trace[c] # << >>
    /\ trace[c][1].op = "head"
    /\ trace[c][1].ans \in {"AWSOther", "NonAWS"}

\* C12 as stated: once a metadata object is written, no later operation
\* writes that key again or changes its content.
C12_Original ==
    [][ \A k \in DOMAIN bucket :
          bucket[k].isJSON =>
              /\ k \in DOMAIN bucket'
              /\ bucket'[k] = bucket[k]
              /\ \A c \in Calls : ~WritesKey(c, k) ]_vars

\* C12: a metadata object, once written, is never removed and stays a
\* metadata document; it is written again only by a call for the same
\* identity whose existence check was answered with an error (fail-open), in
\* a step where that call makes a successful put under the key.
C12_RewrittenOnlyAfterFailedHead ==
    [][ \A k \in DOMAIN bucket :
          bucket[k].isJSON =>
              /\ k \in DOMAIN bucket'
              /\ bucket'[k].isJSON
              /\ (bucket'[k] # bucket[k] \/ \E c \in Calls : WritesKey(c, k))
                    => \E c \in Calls : /\ WritesKey(c, k)
                                       /\ k = JSONKeyOf(c)
                                       /\ HeadFailed(c) ]_vars

\* a second call for the identity, its existence check failed, has written
\* the metadata object again, with a record that differs from the one the
\* first call persisted and returned
C12_Witness ==
    \E c1, c2 \in Calls :
        /\ c1 # c2 /\ SameIdentity(c1, c2)
        /\ PersistedBy(c1) /\ ReturnsRecord(c1)
        /\ PersistedBy(c2) /\ HeadFailed(c2)
        /\ bucket[JSONKeyOf(c1)].doc # Marshal(result[c1].meta.meta)

(* ---------------- C13 ---------------- *)

\* call c went through the MISS path and returned a record
MissSucceeded(c) ==
    /\ Finished(c) /\ ReturnsRecord(c)
    /\ MetaFetches(c) # {}

\* the key of call c's clip object for a format, spelled out
ClipKeyOf(c, format) ==
    <<"t", "i", "k", "t", "o", "k", "/">> \o username[c] \o <<"/">> \o videoID[c]
        \o <<".">> \o format

\* the byte fetches of call c, in request order
ByteFetches(c) == { i \in 1..Len(trace[c]) : trace[c][i].op = "bytes" }

\* C13: on a successful MISS path the clip is fetched from the download
\* address if that is non-empty and from the play address otherwise, the
\* store receives exactly one put under tiktok/<owner>/<videoId>.<format>,
\* and the returned record's cached-clip field is
\* <base>/tiktok/<owner>/<videoId>.<format>.
C13_ClipCached ==
    \A c \in Calls :
        MissSucceeded(c) =>
            LET m == result[c].meta.meta
                key == ClipKeyOf(c, m.Video.Format)
                addr == IF m.Video.DownloadAddr # << >> THEN m.Video.DownloadAddr
                        ELSE m.Video.PlayAddr
            IN /\ \E i \in ByteFetches(c) :
                     /\ trace[c][i].key = addr
                     /\ \A j \in ByteFetches(c) : i <= j
               /\ Cardinality({ j \in Puts(c) : trace[c][j].key = key }) = 1
               /\ m.CDNVideoURL = <<"B", "/">> \o key

(* ---------------- C14 ---------------- *)

LeadingSlashes(s) ==
    Cardinality({ i \in 1..Len(s) : \A j \in 1..i : s[j] = "/" })

TrailingSlashes(s) ==
    Cardinality({ i \in 1..Len(s) : \A j \in i..Len(s) : s[j] = "/" })

\* the path without its leading and trailing slashes
Core(s) == SubSeq(s, LeadingSlashes(s) + 1, Len(s) - TrailingSlashes(s))

SlashesIn(s) == { i \in 1..Len(s) : s[i] = "/" }

FirstSlash(s) == CHOOSE i \in SlashesIn(s) : \A j \in SlashesIn(s) : i <= j

LastSlash(s) == CHOOSE i \in SlashesIn(s) : \A j \in SlashesIn(s) : j <= i

\* between its outer slashes the path reads <owner>/video/<id>
VideoPath(s) ==
    /\ Cardinality(SlashesIn(Core(s))) = 2
    /\ SubSeq(Core(s), FirstSlash(Core(s)) + 1, LastSlash(Core(s)) - 1)
           = <<"v", "i", "d", "e", "o">>

OwnerOf(s) == SubSeq(Core(s), 1, FirstSlash(Core(s)) - 1)

IdOf(s) == SubSeq(Core(s), LastSlash(Core(s)) + 1, Len(Core(s)))

\* the path is exactly /<owner>/video/<id>
StrictVideoPath(s) ==
    VideoPath(s) /\ LeadingSlashes(s) = 1 /\ TrailingSlashes(s) = 0

\* the request ends at https://www.tiktok.com/@alice/video/123
AliceScenario ==
    /\ ~short.resp.err /\ short.resp.StatusCode = 200
    /\ short.resp.Host = "www.tiktok.com"
    /\ short.resp.Path = <<"/", "@", "a", "l", "i", "c", "e", "/", "v", "i", "d",
                           "e", "o", "/", "1", "2", "3">>

\* C14 as stated: a chain ending at https://www.tiktok.com/@alice/video/123
\* returns ("alice", "123"), and a final destination on any other host or
\* with any other path shape than /<owner>/video/<id> yields an error.
C14_Original ==
    short.pc \in {"reply", "done"} /\ ~short.resp.err /\ short.resp.StatusCode = 200 =>
        /\ AliceScenario =>
               short.res = Resolved(<<"a", "l", "i", "c", "e">>, <<"1", "2", "3">>, FALSE)
        /\ (short.resp.Host \notin {"www.tiktok.com", "tiktok.com"}
               \/ ~StrictVideoPath(short.resp.Path))
               => short.res.err

\* C14: ResolveHash returns an error when the HEAD request fails; a final
\* response of status 404 yields the empty pair without error whatever its
\* host and path; otherwise a final host other than www.tiktok.com and
\* tiktok.com yields an error, and so does a path that, cut of its leading
\* and trailing slashes, is not <owner>/video/<id>; else the result is
\* (owner, id) verbatim, ("@alice", "123") for
\* https://www.tiktok.com/@alice/video/123. handleShortURL answers 500 to an
\* error, 404 to the empty pair and 301 to /video/<owner>/<id> otherwise.
C14_ResolveHash ==
    short.pc \in {"reply", "done"} =>
        LET r == short.resp
            res == short.res
        IN /\ r.err => res.err
           /\ ~r.err /\ r.StatusCode = 404 => res = Resolved(<< >>, << >>, FALSE)
           /\ ~r.err /\ r.StatusCode # 404 =>
                 IF r.Host \in {"www.tiktok.com", "tiktok.com"} /\ VideoPath(r.Path)
                 THEN res = Resolved(OwnerOf(r.Path), IdOf(r.Path), FALSE)
                 ELSE res.err
           /\ AliceScenario =>
                 res = Resolved(<<"@", "a", "l", "i", "c", "e">>, <<"1", "2", "3">>, FALSE)
           /\ short.pc = "done" =>
                 short.reply =
                   IF res.err THEN [ code |-> 500, location |-> << >> ]
                   ELSE IF res.username = << >> \/ res.videoID = << >>
                   THEN [ code |-> 404, location |-> << >> ]
                   ELSE [ code |-> 301,
                          location |-> <<"/", "v", "i", "d", "e", "o", "/">>
                                         \o OwnerOf(r.Path) \o <<"/">> \o IdOf(r.Path) ]

\* the scenario's request was resolved and redirected to /video/@alice/123
C14_Witness ==
    /\ AliceScenario
    /\ short.pc = "done"
    /\ short.res.username = <<"@", "a", "l", "i", "c", "e">>
    /\ short.reply.code = 301
    /\ short.reply.location = <<"/", "v", "i", "d", "e", "o", "/", "@", "a", "l", "i",
                                "c", "e", "/", "1", "2", "3">>

(* ---------------- C15 ---------------- *)

\* call c went through the MISS path and did not return a record
MissFailed(c) ==
    /\ Finished(c) /\ ~ReturnsRecord(c)
    /\ MetaFetches(c) # {}

\* the keys under which call c stored an object
StoredKeys(c) == { trace[c][j].key : j \in { i \in Puts(c) : trace[c][i].ans = "ok" } }

\* k is a key of the image namespace tiktok/img/
IsImageKey(k) ==
    /\ Len(k) > 11
    /\ SubSeq(k, 1, 11) = <<"t", "i", "k", "t", "o", "k", "/", "i", "m", "g", "/">>

\* a metadata object for the identity of call c is in the bucket only when
\* some call for that identity persisted it
NoStrayMetadata(c) ==
    JSONKeyOf(c) \in DOMAIN bucket =>
        \E c2 \in Calls : SameIdentity(c, c2) /\ PersistedBy(c2)

\* C15 as stated: after a failed MISS-path call the only objects that call
\* left in the store are image blobs; no clip object and no metadata object
\* remains from it.
C15_Original ==
    \A c \in Calls :
        MissFailed(c) =>
            /\ \A k \in StoredKeys(c) : IsImageKey(k)
            /\ ~PersistedBy(c) /\ NoStrayMetadata(c)

\* C15: after a failed MISS-path call the only objects that call left in
\* the store are the asset blobs it had uploaded before the failure: the clip
\* under tiktok/<owner>/<videoId>.<format> and image blobs under tiktok/img/;
\* it left no metadata object.
C15_OnlyAssetOrphans ==
    \A c \in Calls :
        MissFailed(c) =>
            /\ \A k \in StoredKeys(c) :
                  IsImageKey(k) \/ k = ClipKeyOf(c, ttm[c].meta.Video.Format)
            /\ \A k \in StoredKeys(c) : k \in DOMAIN bucket /\ ~bucket[k].isJSON
            /\ ~PersistedBy(c) /\ NoStrayMetadata(c)

\* a call failed at its second image and left its clip and its first image
\* in the store, and no metadata object
C15_Witness ==
    \E c \in Calls :
        /\ MissFailed(c) /\ ReturnsError(c)
        /\ Cardinality(StoredKeys(c)) = 2
        /\ ClipKeyOf(c, <<"m", "p", "4">>) \in StoredKeys(c)
        /\ ClipKeyOf(c, <<"m", "p", "4">>) \in DOMAIN bucket
        /\ JSONKeyOf(c) \notin DOMAIN bucket

(* ---------------- C16 ---------------- *)

\* the puts of call c under image keys, and under its clip key
ImagePuts(c) == { j \in Puts(c) : IsImageKey(trace[c][j].key) }

ClipPuts(c) == { j \in Puts(c) : trace[c][j].key = ClipKeyOf(c, ttm[c].meta.Video.Format) }

\* the origin URLs of the six image fields of the model's records, in the
\* order cover, origin cover, dynamic cover, avatar large, medium, thumb
FieldURL(k) == << "i", <<"1", "2", "3", "4", "5", "6">>[k] >>

\* C16: within one call the store writes come in a fixed order: the clip put
\* precedes every image put, the image puts come in the order cover, origin
\* cover, dynamic cover, avatar large, avatar medium, avatar thumb, and the
\* metadata put comes only after all seven asset puts of the call succeeded.
C16_WriteOrder ==
    \A c \in Calls :
        /\ \A j \in ImagePuts(c) : \E i \in ClipPuts(c) : i < j
        /\ \A j \in ImagePuts(c) :
              LET k == Cardinality({ i \in ImagePuts(c) : i <= j })
              IN /\ k <= 6
                 /\ trace[c][j - 1].op = "bytes"
                 /\ trace[c][j - 1].key = FieldURL(k)
        /\ \A j \in Puts(c) :
              trace[c][j].key = JSONKeyOf(c) =>
                  /\ j = Len(trace[c])
                  /\ Cardinality({ i \in ClipPuts(c) : trace[c][i].ans = "ok" }) = 1
                  /\ Cardinality({ i \in ImagePuts(c) : trace[c][i].ans = "ok" }) = 6

(* ---------------- C17 ---------------- *)

\* call c was admitted and got a locker from the row lock
Admitted(c) == pc[c] # "idle" /\ locker[c] # 0

\* the lock key owner/videoId of call c, spelled out
LockKeyOf(c) == username[c] \o <<"/">> \o videoID[c]

\* C17: calls for different identities never contend on a lock: their keys
\* owner/videoId differ, they hold different mutexes, and a call waiting for
\* its lock waits only for a call of its own identity.
C17_NoCrossContention ==
    \A c1, c2 \in Calls :
        (c1 # c2 /\ Admitted(c1) /\ Admitted(c2) /\ ~SameIdentity(c1, c2)) =>
            /\ LockKeyOf(c1) # LockKeyOf(c2)
            /\ locker[c1] # locker[c2]
            /\ rows[LockKeyOf(c1)] = locker[c1]
            /\ pc[c1] = "Lock" => holder[locker[c1]] # c2

\* two calls for different identities are in the MISS path at the same time,
\* each holding the lock of its own key
C17_Witness ==
    \E c1, c2 \in Calls :
        /\ ~SameIdentity(c1, c2)
        /\ InMiss(c1) /\ InMiss(c2)
        /\ pc[c1] = "processImages" /\ pc[c2] = "processImages"
        /\ holder[locker[c1]] = c1 /\ holder[locker[c2]] = c2

(* ---------------- C18 ---------------- *)

\* every origin and store request of call c eventually returns, as does
\* the deferred unlock
Returns(c) ==
    \/ CachedMetadataHead(c) \/ CachedMetadataGet(c) \/ FetchMetadata(c)
    \/ ScrapeVideoClip(c) \/ CacheImage(c) \/ CacheMetadata(c) \/ Unlock(c)

\* the runs of the progress check: at most one request fails
FairInit == ScraperInit /\ faults = MaxFaults - 1 /\ short = NoRequest

\* the requests return, and the mutex is granted fairly to its waiters
FairSpec ==
    /\ FairInit /\ [][Next]_vars
    /\ \A c \in Calls : WF_vars(Returns(c))
    /\ \A c \in Calls : SF_vars(Lock(c))

\* a held mutex is held by a call that has not returned
HeldByRunningCall ==
    \A l \in Calls : holder[l] # 0 => HoldsLock(holder[l]) /\ locker[holder[l]] = l

\* a call leaves the wait for its lock only by acquiring it
LeavesWaitByAcquiring ==
    \A c \in Calls :
        pc[c] = "Lock" /\ pc'[c] # "Lock" => HoldsLock(c)' /\ holder'[locker[c]] = c

ImageFieldsOf(doc) ==
    { doc.video.cover, doc.video.originCover, doc.video.dynamicCover,
      doc.author.avatarLarger, doc.author.avatarMedium, doc.author.avatarThumb }

\* url is <base>/<key> for a key of the image namespace that is in the bucket
CachedImageURL(url) ==
    /\ Len(url) > 2
    /\ SubSeq(url, 1, 2) = <<"B", "/">>
    /\ IsImageKey(SubSeq(url, 3, Len(url)))
    /\ SubSeq(url, 3, Len(url)) \in DOMAIN bucket

\* C19: whenever a metadata object exists under tiktok/<owner>/<videoId>.json
\* the stored record is fully materialized: its cached-clip field is
\* <base>/tiktok/<owner>/<videoId>.<format> and the clip object is in the
\* store, and each of its six image fields is <base>/tiktok/img/<digest> with
\* the object in the store, never an origin URL.
C19_FullyMaterialized ==
    \A c \in Calls :
        JSONKeyOf(c) \in DOMAIN bucket =>
            LET doc == bucket[JSONKeyOf(c)].doc
                clip == ClipKeyOf(c, doc.video.format)
            IN /\ bucket[JSONKeyOf(c)].isJSON
               /\ doc.cdnVideoURL = <<"B", "/">> \o clip
               /\ clip \in DOMAIN bucket
               /\ \A url \in ImageFieldsOf(doc) : CachedImageURL(url)

(* ---------------- C20 ---------------- *)

\* the number of outcomes (record, not-found, system error) call c ended in
Outcomes(c) ==
    Cardinality({ o \in {"record", "notfound", "error"} :
                    \/ o = "record" /\ ReturnsRecord(c)
                    \/ o = "notfound" /\ ReturnsNotFound(c)
                    \/ o = "error" /\ ReturnsError(c) })

\* C20: whatever the origin answers to the metadata request, a status 0
\* without a nested record included, the call ends in exactly one of the
\* three outcomes, never enters clip or image caching without a record, and
\* never faults.
C20_ThreeOutcomes ==
    \A c \in Calls :
        /\ Finished(c) => Outcomes(c) = 1
        /\ pc[c] \in {"ScrapeVideoClip", "processImages", "cacheMetadata"}
              => ~ttm[c].isNil
        /\ ~result[c].panic
====
